---------------------------- MODULE Spec2Model ----------------------------
(***************************************************************************)
(* BizLearn: the business-plan sectionizer of                              *)
(* src/src/lib/businessPlanGenerator.ts (parseBusinessPlanSections and     *)
(* formatSectionContent).                                                  *)
(*                                                                         *)
(* A JavaScript string is a sequence of characters; a character is a       *)
(* one-character TLA+ string, except U+2022 (the bullet), written Bullet.  *)
(* Every regular expression of the source is an operator that scans the    *)
(* string left to right exactly as String.prototype.replace with the g     *)
(* flag does: at each position either the pattern matches (greedily) and   *)
(* the scan resumes after the match, or the character is copied.           *)
(***************************************************************************)
EXTENDS Integers, Sequences, FiniteSets, TLC

(***************************************************************************)
(* Bounds of the model.                                                    *)
(***************************************************************************)
\* Longest input drawn character by character from Alphabet.
MaxChars == 4

\* Most lines of an input drawn line by line from LineSet.
MaxLines == 4

(***************************************************************************)
(* Characters.                                                             *)
(***************************************************************************)
Bullet == "U+2022"

\* The characters \s matches and trim() strips (those the model draws from).
WhiteSpace == {" ", "\n", "\t", "\r"}

\* The characters after which ^ matches under the m flag.
LineTerminator == {"\n", "\r"}

Digit == {"0", "1", "2", "3", "4", "5", "6", "7", "8", "9"}

UpperLetters ==
    <<"A","B","C","D","E","F","G","H","I","J","K","L","M",
      "N","O","P","Q","R","S","T","U","V","W","X","Y","Z">>

LowerLetters ==
    <<"a","b","c","d","e","f","g","h","i","j","k","l","m",
      "n","o","p","q","r","s","t","u","v","w","x","y","z">>

LowerMap ==
    [c \in {UpperLetters[i] : i \in 1..26} |->
        LowerLetters[CHOOSE i \in 1..26 : UpperLetters[i] = c]]

\* String.prototype.toLowerCase
toLowerCase(s) ==
    [i \in 1..Len(s) |-> IF s[i] \in DOMAIN LowerMap THEN LowerMap[s[i]] ELSE s[i]]

SetMax(S) == CHOOSE m \in S : \A k \in S : k <= m

SetMin(S) == CHOOSE m \in S : \A k \in S : m <= k

\* How many consecutive characters of class C the string holds from index i on.
RECURSIVE RunLen(_, _, _)
RunLen(s, i, C) ==
    IF i <= Len(s) /\ s[i] \in C THEN 1 + RunLen(s, i + 1, C) ELSE 0

\* Where ^ matches under the m flag: at the start and after a line terminator.
AtLineStart(s, i) == i = 1 \/ s[i - 1] \in LineTerminator

\* How many consecutive characters of class C the string holds from index i back.
RECURSIVE RunLenBack(_, _, _)
RunLenBack(s, i, C) ==
    IF i >= 1 /\ s[i] \in C THEN 1 + RunLenBack(s, i - 1, C) ELSE 0

\* String.prototype.trim
trim(s) ==
    LET lead  == RunLen(s, 1, WhiteSpace)
        trail == RunLenBack(s, Len(s), WhiteSpace)
    IN  IF lead = Len(s) THEN <<>> ELSE SubSeq(s, lead + 1, Len(s) - trail)

\* How many characters the line that starts at index i holds.
RECURSIVE LineLen(_, _)
LineLen(s, i) ==
    IF i <= Len(s) /\ s[i] # "\n" THEN 1 + LineLen(s, i + 1) ELSE 0

RECURSIVE splitFrom(_, _)
splitFrom(s, i) ==
    LET n == LineLen(s, i)
    IN  IF i + n > Len(s) THEN <<SubSeq(s, i, Len(s))>>
        ELSE <<SubSeq(s, i, i + n - 1)>> \o splitFrom(s, i + n + 1)

\* String.prototype.split('\n')
split(s) == splitFrom(s, 1)

\* String.prototype.includes
includes(s, h) ==
    \E p \in 1..(Len(s) - Len(h) + 1) :
        s[p] = h[1] /\ SubSeq(s, p, p + Len(h) - 1) = h

(***************************************************************************)
(* The regular expressions of the cleanup and formatting passes: for each, *)
(* the length of its match at index i of s, 0 when it does not match there.*)
(***************************************************************************)
\* The first index from i on where the pattern matches (ml[i] is the length
\* of its match at i), Len(ml) + 1 if there is none.
RECURSIVE FindMatch(_, _)
FindMatch(ml, i) ==
    IF i > Len(ml) \/ ml[i] > 0 THEN i ELSE FindMatch(ml, i + 1)

\* The scan of String.prototype.replace with a g-flagged pattern, from index
\* i on: the text up to the next match is copied, the match is replaced, and
\* the scan resumes right after the match.
RECURSIVE replaceFrom(_, _, _, _)
replaceFrom(s, ml, i, replacement) ==
    LET j == FindMatch(ml, i)
    IN  IF j > Len(s) THEN SubSeq(s, i, Len(s))
        ELSE SubSeq(s, i, j - 1) \o replacement
                 \o replaceFrom(s, ml, j + ml[j], replacement)

\* String.prototype.replace(pattern, replacement), the pattern given by ml,
\* the length of its match at each index of s.
replace(s, ml, replacement) == replaceFrom(s, ml, 1, replacement)

\* /\*\*/
BoldLen(s, i) == IF s[i] = "*" /\ i < Len(s) /\ s[i + 1] = "*" THEN 2 ELSE 0

\* /\*/
AsteriskLen(s, i) == IF s[i] = "*" THEN 1 ELSE 0

\* /#{1,6}\s/ : the hashes are matched greedily, the longest count first.
HeaderMarkerLen(s, i) ==
    IF s[i] # "#" THEN 0
    ELSE LET ms == {m \in 1..6 : /\ i + m <= Len(s)
                                 /\ \A k \in 0..(m - 1) : s[i + k] = "#"
                                 /\ s[i + m] \in WhiteSpace}
         IN  IF ms = {} THEN 0 ELSE SetMax(ms) + 1

\* A bullet pattern without \s*: the marker must be the first character of the line.
BulletLen_NoIndent(s, i) ==
    IF /\ AtLineStart(s, i)
       /\ i + 1 <= Len(s)
       /\ s[i] \in {"-", Bullet}
       /\ s[i + 1] \in WhiteSpace
    THEN 2
    ELSE 0

\* /^\s*[-U+2022]\s/m : \s* is greedy and the marker is no whitespace, so the
\* marker is the first character after the whole run of whitespace.
BulletLen(s, i) ==
    IF ~AtLineStart(s, i) THEN 0
    ELSE LET w == RunLen(s, i, WhiteSpace)
         IN  IF /\ i + w + 1 <= Len(s)
                /\ s[i + w] \in {"-", Bullet}
                /\ s[i + w + 1] \in WhiteSpace
             THEN w + 2
             ELSE 0

\* /\n{3,}/
LineBreaksLen(s, i) ==
    IF s[i] # "\n" THEN 0
    ELSE LET n == RunLen(s, i, {"\n"}) IN IF n >= 3 THEN n ELSE 0

\* /^\s+/m
LeadingWhitespaceLen(s, i) ==
    IF AtLineStart(s, i) THEN RunLen(s, i, WhiteSpace) ELSE 0

\* trimmedLine.match(/^\d+\./)
matchesNumbering(s) ==
    LET d == RunLen(s, 1, Digit)
    IN  d >= 1 /\ d + 1 <= Len(s) /\ s[d + 1] = "."

(***************************************************************************)
(* formatSectionContent and the cleanup of parseBusinessPlanSections.      *)
(***************************************************************************)
\* .replace(/\*\*/g, '')
removeBold(s) == replace(s, [i \in 1..Len(s) |-> BoldLen(s, i)], <<>>)

\* .replace(/\*/g, '')
removeAsterisks(s) == replace(s, [i \in 1..Len(s) |-> AsteriskLen(s, i)], <<>>)

\* .replace(/#{1,6}\s/g, '')
removeHeaderMarkers(s) == replace(s, [i \in 1..Len(s) |-> HeaderMarkerLen(s, i)], <<>>)

\* .replace(/^\s*[-U+2022]\s/gm, 'U+2022 ')
normalizeBullets(s) == replace(s, [i \in 1..Len(s) |-> BulletLen(s, i)], <<Bullet, " ">>)

\* .replace(/\n{3,}/g, '\n\n')
normalizeLineBreaks(s) ==
    replace(s, [i \in 1..Len(s) |-> LineBreaksLen(s, i)], <<"\n", "\n">>)

\* .replace(/^\s+/gm, '')
removeLeadingWhitespace(s) ==
    replace(s, [i \in 1..Len(s) |-> LeadingWhitespaceLen(s, i)], <<>>)

\* A formatting pass that normalises the bullets before it removes the asterisks.
formatSectionContent_BulletsFirst(content) ==
    trim(removeLeadingWhitespace(normalizeLineBreaks(removeAsterisks(
        removeBold(normalizeBullets(content))))))

\* A formatting pass without .replace(/^\s+/gm, '').
formatSectionContent_KeepIndent(content) ==
    trim(normalizeLineBreaks(normalizeBullets(removeAsterisks(removeBold(content)))))

formatSectionContent(content) ==
    trim(removeLeadingWhitespace(normalizeLineBreaks(normalizeBullets(
        removeAsterisks(removeBold(content))))))

\* const cleanContent = content.replace(...)....trim()
cleanUp(content) ==
    trim(normalizeLineBreaks(normalizeBullets(removeHeaderMarkers(
        removeAsterisks(removeBold(content))))))

sectionHeaders ==
    << <<"E","x","e","c","u","t","i","v","e"," ","S","u","m","m","a","r","y">>,
       <<"C","o","m","p","a","n","y"," ","D","e","s","c","r","i","p","t","i","o","n">>,
       <<"M","a","r","k","e","t"," ","A","n","a","l","y","s","i","s">>,
       <<"O","r","g","a","n","i","z","a","t","i","o","n"," ","&"," ",
         "M","a","n","a","g","e","m","e","n","t">>,
       <<"P","r","o","d","u","c","t","s"," ","o","r"," ","S","e","r","v","i","c","e","s">>,
       <<"M","a","r","k","e","t","i","n","g"," ","&"," ","S","a","l","e","s"," ",
         "S","t","r","a","t","e","g","y">>,
       <<"F","i","n","a","n","c","i","a","l"," ","P","r","o","j","e","c","t","i","o","n","s">>,
       <<"R","i","s","k"," ","A","n","a","l","y","s","i","s">>,
       <<"I","m","p","l","e","m","e","n","t","a","t","i","o","n"," ",
         "T","i","m","e","l","i","n","e">>,
       <<"A","p","p","e","n","d","i","c","e","s">> >>

\* header.toLowerCase(), for each header
lowerHeaders == [k \in 1..Len(sectionHeaders) |-> toLowerCase(sectionHeaders[k])]

\* The title of the fallback section.
FallbackTitle == <<"B","u","s","i","n","e","s","s"," ","P","l","a","n">>

\* A line scan whose find() drops the numbering/equality test: any mention matches.
matchedHeader_AnyMention(trimmedLine) ==
    LET low == toLowerCase(trimmedLine)
        hit == {k \in 1..Len(sectionHeaders) : includes(low, lowerHeaders[k])}
    IN  IF hit = {} THEN <<>> ELSE sectionHeaders[SetMin(hit)]

\* A line scan that titles the section with the text of the line it matched.
matchedHeader_LineText(trimmedLine) ==
    LET low == toLowerCase(trimmedLine)
        hit == {k \in 1..Len(sectionHeaders) :
                   /\ includes(low, lowerHeaders[k])
                   /\ (matchesNumbering(trimmedLine) \/ low = lowerHeaders[k])}
    IN  IF hit = {} THEN <<>> ELSE trimmedLine

\* A find that takes the name standing first in the line, not first in the
\* outline.
matchedHeader_FirstInLine(trimmedLine) ==
    LET low == toLowerCase(trimmedLine)
        hit == {k \in 1..Len(sectionHeaders) :
                   /\ includes(low, lowerHeaders[k])
                   /\ (matchesNumbering(trimmedLine) \/ low = lowerHeaders[k])}
        at(k) == SetMin({p \in 1..(Len(low) - Len(lowerHeaders[k]) + 1) :
                           SubSeq(low, p, p + Len(lowerHeaders[k]) - 1) = lowerHeaders[k]})
    IN  IF hit = {} THEN <<>>
        ELSE sectionHeaders[CHOOSE k \in hit : \A j \in hit : at(k) <= at(j)]

\* sectionHeaders.find(...): the first header of the outline the line matches,
\* the empty string (undefined in the source) when it matches none.
matchedHeader(trimmedLine) ==
    LET low == toLowerCase(trimmedLine)
        hit == {k \in 1..Len(sectionHeaders) :
                   /\ includes(low, lowerHeaders[k])
                   /\ (matchesNumbering(trimmedLine) \/ low = lowerHeaders[k])}
    IN  IF hit = {} THEN <<>> ELSE sectionHeaders[SetMin(hit)]

\* A flush without the test that a section is open.
flush_Untitled(st) ==
    IF trim(st.currentContent) # <<>>
    THEN Append(st.sections,
                [title |-> st.currentSection,
                 content |-> formatSectionContent(trim(st.currentContent))])
    ELSE st.sections

\* A flush that puts the section at the head of the list (unshift for push).
flush_Prepend(st) ==
    IF st.currentSection # <<>> /\ trim(st.currentContent) # <<>>
    THEN <<[title |-> st.currentSection,
            content |-> formatSectionContent(trim(st.currentContent))]>>
         \o st.sections
    ELSE st.sections

\* A flush that pushes the open section whatever its content, blank included.
flush_EmptyToo(st) ==
    IF st.currentSection # <<>>
    THEN Append(st.sections,
                [title |-> st.currentSection,
                 content |-> formatSectionContent(trim(st.currentContent))])
    ELSE st.sections

\* A flush whose guard looks at the content as accumulated, not trimmed.
flush_BlankToo(st) ==
    IF st.currentSection # <<>> /\ st.currentContent # <<>>
    THEN Append(st.sections,
                [title |-> st.currentSection,
                 content |-> formatSectionContent(trim(st.currentContent))])
    ELSE st.sections

\* sections.push({title, content: formatSectionContent(currentContent.trim())})
\* under its guard: a section is open and its content is not blank.
flush(st) ==
    IF st.currentSection # <<>> /\ trim(st.currentContent) # <<>>
    THEN Append(st.sections,
                [title |-> st.currentSection,
                 content |-> formatSectionContent(trim(st.currentContent))])
    ELSE st.sections

\* A line scan that opens the new section with the header line as content.
scanLine_KeepHeader(st, line) ==
    LET trimmedLine == trim(line)
        mh == matchedHeader(trimmedLine)
    IN  IF mh # <<>>
        THEN [currentSection |-> mh,
              currentContent |-> line \o <<"\n">>,
              sections |-> flush(st),
              matched |-> Append(st.matched, mh)]
        ELSE [currentSection |-> st.currentSection,
              currentContent |-> st.currentContent \o line \o <<"\n">>,
              sections |-> st.sections,
              matched |-> Append(st.matched, mh)]

\* A line scan that accumulates the lines without their newline.
scanLine_NoNewline(st, line) ==
    LET trimmedLine == trim(line)
        mh == matchedHeader(trimmedLine)
    IN  IF mh # <<>>
        THEN [currentSection |-> mh,
              currentContent |-> <<>>,
              sections |-> flush(st),
              matched |-> Append(st.matched, mh)]
        ELSE [currentSection |-> st.currentSection,
              currentContent |-> st.currentContent \o line,
              sections |-> st.sections,
              matched |-> Append(st.matched, mh)]

\* One iteration of the line scan.
scanLine(st, line) ==
    LET trimmedLine == trim(line)
        mh == matchedHeader(trimmedLine)
    IN  IF mh # <<>>
        THEN [currentSection |-> mh,
              currentContent |-> <<>>,
              sections |-> flush(st),
              matched |-> Append(st.matched, mh)]
        ELSE [currentSection |-> st.currentSection,
              currentContent |-> st.currentContent \o line \o <<"\n">>,
              sections |-> st.sections,
              matched |-> Append(st.matched, mh)]

\* for (const line of lines) { ... }
RECURSIVE scanLines(_, _, _)
scanLines(st, lines, i) ==
    IF i > Len(lines) THEN st ELSE scanLines(scanLine(st, lines[i]), lines, i + 1)

\* let currentSection = ''; let currentContent = ''; the empty output list
initScan ==
    [currentSection |-> <<>>, currentContent |-> <<>>,
     sections |-> <<>>, matched |-> <<>>]

\* No fallback: the list is returned as the scan left it.
fallback_None(sections, clean) == sections

\* A fallback that skips the formatting pass.
fallback_Unformatted(sections, clean) ==
    IF Len(sections) = 0
    THEN <<[title |-> FallbackTitle, content |-> clean]>>
    ELSE sections

\* A fallback that is added to whatever the scan has yielded.
fallback_Always(sections, clean) ==
    Append(sections, [title |-> FallbackTitle, content |-> formatSectionContent(clean)])

\* The fallback: one section holding the whole cleaned text.
fallback(sections, clean) ==
    IF Len(sections) = 0
    THEN <<[title |-> FallbackTitle, content |-> formatSectionContent(clean)]>>
    ELSE sections

\* A parse that scans the lines of the text as given, not of the cleaned text.
parseBusinessPlanSections_ScanRaw(content) ==
    LET clean == cleanUp(content)
        lines == split(content)
        st    == scanLines(initScan, lines, 1)
    IN  [cleanContent |-> clean,
         lines        |-> lines,
         matched      |-> st.matched,
         sections     |-> fallback(flush(st), clean)]

\* parseBusinessPlanSections: the locals at the return statement.
parseBusinessPlanSections(content) ==
    LET clean == cleanUp(content)
        lines == split(clean)
        st    == scanLines(initScan, lines, 1)
    IN  [cleanContent |-> clean,
         lines        |-> lines,
         matched      |-> st.matched,
         sections     |-> fallback(flush(st), clean)]

(***************************************************************************)
(* The inputs.                                                             *)
(***************************************************************************)
Alphabet == {" ", "\n", "*", "#", "-", Bullet, "x"}

CharInputs == UNION {[1..n -> Alphabet] : n \in 0..MaxChars}

LineSet ==
    << <<"A","p","p","e","n","d","i","c","e","s">>,
       <<"R","i","s","k"," ","A","n","a","l","y","s","i","s">>,
       <<"x">>,
       <<>>,
       <<"1","."," ","A","p","p","e","n","d","i","c","e","s",","," ",
         "r","i","s","k"," ","a","n","a","l","y","s","i","s">>,
       <<"*","*","A","P","P","E","N","D","I","C","E","S","*","*">>,
       <<" ","-","\t","s","e","e"," ","A","p","p","e","n","d","i","c","e","s">>,
       <<"#","#","#","#","#","#","#"," "," ","x">> >>

RECURSIVE joinLines(_)
joinLines(ls) ==
    IF Len(ls) = 0 THEN <<>>
    ELSE IF Len(ls) = 1 THEN ls[1]
    ELSE ls[1] \o <<"\n">> \o joinLines(Tail(ls))

LineInputs ==
    {joinLines([i \in DOMAIN f |-> LineSet[f[i]]]) :
        f \in UNION {[1..n -> 1..Len(LineSet)] : n \in 0..MaxLines}}

\* The worked examples of the outline: a two-section plan, a plan whose header
\* is set in bold and one whose header carries # markers, both with - bullets.
TwoSectionPlan ==
    <<"E","x","e","c","u","t","i","v","e"," ","S","u","m","m","a","r","y",
      "\n","W","e"," ","b","u","i","l","d"," ","s","o","l","a","r"," ","k",
      "i","t","s",".","\n","\n","M","a","r","k","e","t"," ","A","n","a","l",
      "y","s","i","s","\n","R","u","r","a","l"," ","d","e","m","a","n","d",
      " ","i","s"," ","h","i","g","h",".","\n">>

BoldHeaderPlan ==
    <<"*","*","E","x","e","c","u","t","i","v","e"," ","S","u","m","m","a",
      "r","y","*","*","\n","-"," ","P","o","i","n","t"," ","o","n","e","\n",
      "-"," ","P","o","i","n","t"," ","t","w","o">>

HashHeaderPlan ==
    <<"#","#"," ","R","i","s","k"," ","A","n","a","l","y","s","i","s","\n",
      "-"," ","x">>

\* A numbered header line that names two sections, the later one of the
\* outline first, and a line of content.
TwoNamePlan ==
    <<"1","."," ","R","i","s","k"," ","A","n","a","l","y","s","i","s"," ",
      "a","n","d"," ","E","x","e","c","u","t","i","v","e"," ","S","u","m",
      "m","a","r","y","\n","x">>

ScenarioInputs == {TwoSectionPlan, BoldHeaderPlan, HashHeaderPlan, TwoNamePlan}

Inputs == CharInputs \cup LineInputs \cup ScenarioInputs

(***************************************************************************)
(* The generator and the page that calls it.  Messages are strings, texts  *)
(* handed to parseBusinessPlanSections are sequences of characters, and a  *)
(* value that may be absent (null, undefined) is a sequence of length 0 or *)
(* 1.                                                                      *)
(***************************************************************************)
MaxClock == 2

\* The invocations of handleGeneratePlan and handleModifyRequest that may be in
\* progress at the same time.
Ops == {"op1", "op2"}

PlaceholderKey == "your_openrouter_api_key_here"

\* import.meta.env.VITE_OPENROUTER_API_KEY: unset, the placeholder, or a key.
ApiKeys == {"", PlaceholderKey, "sk-or-v1-key"}

\* A key check that lets the placeholder through (only !this.apiKey).
KeyConfigured_PlaceholderOk(key) == key # ""

KeyConfigured(key) == key # "" /\ key # PlaceholderKey

KeyNotConfigured ==
    "OpenRouter API key not configured. Please add your API key to the .env file."

InvalidApiKey ==
    "Invalid API key. Please check your OpenRouter API key configuration."

InsufficientCredits ==
    "Insufficient credits. Please check your OpenRouter billing."

RateLimitExceeded ==
    "Rate limit exceeded. Please wait a moment and try again."

\* `API request failed with status ${response.status}`
RequestFailedWithStatus(status) ==
    CASE status = 500 -> "API request failed with status 500"
      [] status = 401 -> "API request failed with status 401"
      [] status = 402 -> "API request failed with status 402"
      [] status = 429 -> "API request failed with status 429"

FailedToSave == "Failed to save business plan"

\* The message the completion endpoint puts in error.message of its body.
UpstreamMessage == "Provider returned error"

\* new Error(message) and the errors the runtime raises.
Error(message) == [name |-> "Error", message |-> message]

FetchFailed == [name |-> "TypeError", message |-> "Failed to fetch"]

BodyNotJson == [name |-> "SyntaxError", message |-> "Unexpected token < in JSON"]

ChoicesUndefined ==
    [name |-> "TypeError",
     message |-> "Cannot read properties of undefined (reading '0')"]

\* error instanceof Error
IsError(e) == e.name \in {"Error", "TypeError", "SyntaxError"}

\* A catch block that replaces every error by the generic one.
rethrow_Generic(e, kind) ==
    IF kind = "generate"
    THEN Error("Failed to generate business plan. Please try again.")
    ELSE Error("Failed to modify business plan. Please try again.")

\* The catch block of the generator: an Error is rethrown as it is.
rethrow(e, kind) ==
    IF IsError(e) THEN e
    ELSE IF kind = "generate"
    THEN Error("Failed to generate business plan. Please try again.")
    ELSE Error("Failed to modify business plan. Please try again.")

\* The texts the completion endpoint answers with: none, plain text with no
\* header, and a plan with a header.
Completions == {<<>>, <<"x">>, HashHeaderPlan}

\* What fetch and the endpoint can do to one request: reject it, answer it
\* with a failing status (body with error.message, or a body that is no
\* JSON), or answer it with 200 (body that is no JSON, JSON without choices,
\* or a completion).
Responses ==
    {[kind |-> "rejected", status |-> 0, body |-> "none",
      message |-> "", content |-> <<>>]}
    \cup {[kind |-> "answered", status |-> s, body |-> "json",
           message |-> UpstreamMessage, content |-> <<>>] :
             s \in {401, 402, 429, 500}}
    \cup {[kind |-> "answered", status |-> 500, body |-> "text",
           message |-> "", content |-> <<>>]}
    \cup {[kind |-> "answered", status |-> 200, body |-> b,
           message |-> "", content |-> <<>>] : b \in {"text", "nochoices"}}
    \cup {[kind |-> "answered", status |-> 200, body |-> "json",
           message |-> "", content |-> c] : c \in Completions}

\* response.ok
Ok(response) == response.kind = "answered" /\ response.status \in 200..299

\* A message that is what the endpoint said whatever the status.
failureMessage_Upstream(response) ==
    IF response.message # "" THEN response.message
    ELSE RequestFailedWithStatus(response.status)

\* The message of the Error thrown for a response that is not ok.
failureMessage(response) ==
    IF response.status = 401 THEN InvalidApiKey
    ELSE IF response.status = 402 THEN InsufficientCredits
    ELSE IF response.status = 429 THEN RateLimitExceeded
    ELSE IF response.message # "" THEN response.message
    ELSE RequestFailedWithStatus(response.status)

\* data.choices[0]?.message?.content || 'Failed to ... business plan.'
contentOrDefault(content, kind) ==
    IF content # <<>> THEN content
    ELSE IF kind = "generate"
    THEN
            <<"F","a","i","l","e","d"," ","t","o"," ","g","e","n","e","r",
              "a","t","e"," ","b","u","s","i","n","e","s","s"," ","p","l",
              "a","n",".">>
    ELSE
            <<"F","a","i","l","e","d"," ","t","o"," ","m","o","d","i","f",
              "y"," ","b","u","s","i","n","e","s","s"," ","p","l","a","n",
              ".">>

\* What the code after the await of fetch does with the outcome of the request:
\* the error it throws, or the text it hands to parseBusinessPlanSections.
thrownFor(response, kind) ==
    IF response.kind = "rejected" THEN <<rethrow(FetchFailed, kind)>>
    ELSE IF ~Ok(response) THEN <<rethrow(Error(failureMessage(response)), kind)>>
    ELSE IF response.body = "text" THEN <<rethrow(BodyNotJson, kind)>>
    ELSE IF response.body = "nochoices" THEN <<rethrow(ChoicesUndefined, kind)>>
    ELSE <<>>

\* The form the page holds when handleGeneratePlan is called.
FormData == [businessName |-> "Acme", industry |-> "Retail"]

\* The record of the plan store the page shows when it is opened.
StoredStatus == {"draft", "complete"}

SeedRecord(status) ==
    [id            |-> <<"row", 0>>,
     business_name |-> "Acme",
     industry      |-> "Retail",
     title         |-> <<"Acme", "Business Plan">>,
     created_at    |-> 0,
     generated_plan |-> <<[title |-> FallbackTitle, content |-> <<"x">>]>>,
     status        |-> status]

\* const planForModification = { id: showPlanView.id, ... }
planForModification(record) ==
    [id       |-> record.id,
     title    |-> record.title,
     industry |-> record.industry,
     createdAt |-> record.created_at,
     sections |-> record.generated_plan,
     status   |-> record.status]

\* The plan generateBusinessPlan builds from the sections.
generatedPlan(input, sections, now) ==
    [id       |-> <<"ms", now>>,
     title    |-> <<input.businessName, "Business Plan">>,
     industry |-> input.industry,
     createdAt |-> now,
     sections |-> sections,
     status   |-> "complete"]

\* A modified plan that keeps the status of the plan it was made from.
modifiedPlan_KeepStatus(businessPlan, sections, now) ==
    [businessPlan EXCEPT !.id = <<"ms", now>>,
                         !.title = Append(businessPlan.title, "(Modified)"),
                         !.createdAt = now,
                         !.sections = sections]

\* The plan modifyBusinessPlan builds: { ...businessPlan, id, title, createdAt,
\* sections, status }.
modifiedPlan(businessPlan, sections, now) ==
    [businessPlan EXCEPT !.id = <<"ms", now>>,
                         !.title = Append(businessPlan.title, "(Modified)"),
                         !.createdAt = now,
                         !.sections = sections,
                         !.status = "complete"]

\* An invocation that has not been made.
IdleOp ==
    [pc |-> "idle", kind |-> "none", input |-> <<>>, businessPlan |-> <<>>,
     requests |-> 0,
     response |-> <<>>, text |-> <<>>, plan |-> <<>>, thrown |-> <<>>,
     saves |-> 0, saved |-> <<>>]

(***************************************************************************)
(* The state machines.  pc .. sections are the locals of one call of       *)
(* parseBusinessPlanSections; formatted and reformatted are the results of *)
(* one and of two calls of formatSectionContent on the same text; apiKey   *)
(* is the field of the generator, clock the millisecond clock, ops the     *)
(* handler invocations, rows the plan store and ui the state of the page.  *)
(***************************************************************************)
VARIABLES pc, raw, cleanContent, lines, matched, sections, formatted, reformatted,
          apiKey, clock, ops, rows, ui

parseVars == <<pc, raw, cleanContent, lines, matched, sections, formatted, reformatted>>

pageVars == <<apiKey, clock, ops, rows, ui>>

vars == <<parseVars, pageVars>>

\* The page with the plans of the store loaded and one of them shown.
InitPage ==
    /\ apiKey \in ApiKeys
    /\ clock = 1
    /\ ops = [o \in Ops |-> IdleOp]
    /\ \E status \in StoredStatus :
          /\ rows = <<SeedRecord(status)>>
          /\ ui = [plans |-> <<SeedRecord(status)>>,
                   showPlanView |-> <<SeedRecord(status)>>,
                   error |-> <<>>,
                   isGenerating |-> FALSE,
                   isModifying |-> FALSE,
                   showGenerator |-> TRUE,
                   showModifyMode |-> TRUE]

\* No page: the functions are called on their own.
NoPage ==
    /\ apiKey = ""
    /\ clock = 1
    /\ ops = [o \in Ops |-> IdleOp]
    /\ rows = <<>>
    /\ ui = [plans |-> <<>>, showPlanView |-> <<>>, error |-> <<>>,
             isGenerating |-> FALSE, isModifying |-> FALSE,
             showGenerator |-> FALSE, showModifyMode |-> FALSE]

Init ==
    /\ pc = "start"
    /\ raw \in Inputs
    /\ cleanContent = <<>>
    /\ lines = <<>>
    /\ matched = <<>>
    /\ sections = <<>>
    /\ formatted = <<>>
    /\ reformatted = <<>>
    /\ NoPage

\* A call that raises an error on a text with nothing but whitespace.
Parse_ThrowsOnBlank ==
    /\ pc = "start"
    /\ IF trim(raw) = <<>>
       THEN /\ pc' = "threw"
            /\ UNCHANGED <<cleanContent, lines, matched, sections>>
       ELSE /\ \E r \in {parseBusinessPlanSections(raw)} :
                   /\ cleanContent' = r.cleanContent
                   /\ lines' = r.lines
                   /\ matched' = r.matched
                   /\ sections' = r.sections
            /\ pc' = "done"
    /\ UNCHANGED <<raw, formatted, reformatted, pageVars>>

Parse ==
    /\ pc = "start"
    /\ \E r \in {parseBusinessPlanSections(raw)} :
           /\ cleanContent' = r.cleanContent
           /\ lines' = r.lines
           /\ matched' = r.matched
           /\ sections' = r.sections
    /\ pc' = "done"
    /\ UNCHANGED <<raw, formatted, reformatted, pageVars>>

Next == Parse

Spec == Init /\ [][Next]_vars

\* formatSectionContent called on a text.
Format ==
    /\ pc = "start"
    /\ formatted' = formatSectionContent(raw)
    /\ pc' = "formatted"
    /\ UNCHANGED <<raw, cleanContent, lines, matched, sections, reformatted, pageVars>>

\* formatSectionContent called on its own result.
Reformat ==
    /\ pc = "formatted"
    /\ reformatted' = formatSectionContent(formatted)
    /\ pc' = "reformatted"
    /\ UNCHANGED <<raw, cleanContent, lines, matched, sections, formatted, pageVars>>

NextFormat == Format \/ Reformat

SpecFormat == Init /\ [][NextFormat]_vars

\* The parse variables when only the page runs.
NoParse ==
    /\ pc = "start"
    /\ raw = <<>>
    /\ cleanContent = <<>>
    /\ lines = <<>>
    /\ matched = <<>>
    /\ sections = <<>>
    /\ formatted = <<>>
    /\ reformatted = <<>>

InitGen == NoParse /\ InitPage

\* The millisecond clock advances.
Tick ==
    /\ clock < MaxClock
    /\ clock' = clock + 1
    /\ UNCHANGED <<parseVars, apiKey, ops, rows, ui>>

\* handleGeneratePlan or handleModifyRequest up to its first await: the flags
\* are set, the generator is called, and the generator either throws for want
\* of an API key or sends its request.
Invoke(o, kind) ==
    /\ ops[o].pc = "idle"
    /\ kind = "modify" => ui.showPlanView # <<>>
    /\ ui' = IF kind = "generate"
             THEN [ui EXCEPT !.isGenerating = TRUE, !.error = <<>>]
             ELSE [ui EXCEPT !.isModifying = TRUE, !.error = <<>>]
    /\ ops' = [ops EXCEPT ![o] =
                 [@ EXCEPT !.kind = kind,
                           !.input = IF kind = "generate" THEN <<>>
                                     ELSE ui.showPlanView,
                           !.businessPlan =
                               IF kind = "generate" THEN <<>>
                               ELSE <<planForModification(ui.showPlanView[1])>>,
                           !.pc = IF KeyConfigured(apiKey) THEN "awaiting"
                                  ELSE "threw",
                           !.thrown = IF KeyConfigured(apiKey) THEN <<>>
                                      ELSE <<Error(KeyNotConfigured)>>,
                           !.requests = IF KeyConfigured(apiKey) THEN @ + 1
                                        ELSE @]]
    /\ UNCHANGED <<parseVars, apiKey, clock, rows>>

\* The request of o is rejected or answered.
Respond(o) ==
    /\ ops[o].pc = "awaiting"
    /\ \E response \in Responses :
           ops' = [ops EXCEPT ![o] = [@ EXCEPT !.pc = "responded",
                                               !.response = <<response>>]]
    /\ UNCHANGED <<parseVars, apiKey, clock, rows, ui>>

\* A generator that keeps its section list in a field of the instance, so that
\* a call pushes its sections behind those of the calls that returned before.
Complete_SharedSections(o) ==
    /\ ops[o].pc = "responded"
    /\ LET op == ops[o]
           response == op.response[1]
           thrown == thrownFor(response, op.kind)
           others == {p \in Ops : p # o /\ ops[p].plan # <<>>}
           shared == IF others = {} THEN <<>>
                     ELSE ops[CHOOSE p \in others : TRUE].plan[1].sections
       IN  IF thrown # <<>>
           THEN ops' = [ops EXCEPT ![o] = [@ EXCEPT !.pc = "threw",
                                                    !.thrown = thrown]]
           ELSE \E text \in {contentOrDefault(response.content, op.kind)} :
                \E secs \in {shared \o parseBusinessPlanSections(text).sections} :
                    ops' = [ops EXCEPT ![o] =
                              [@ EXCEPT !.pc = "returned",
                                        !.text = <<text>>,
                                        !.plan =
                                          IF op.kind = "generate"
                                          THEN <<generatedPlan(FormData, secs, clock)>>
                                          ELSE <<modifiedPlan(op.businessPlan[1],
                                                              secs, clock)>>]]
    /\ UNCHANGED <<parseVars, apiKey, clock, rows, ui>>

\* A generator that sends its request again when the first one failed.
Complete_RetryOnce(o) ==
    /\ ops[o].pc = "responded"
    /\ IF ~Ok(ops[o].response[1]) /\ ops[o].requests < 2
       THEN /\ ops' = [ops EXCEPT ![o] = [@ EXCEPT !.pc = "awaiting",
                                                   !.requests = @ + 1]]
            /\ UNCHANGED <<parseVars, apiKey, clock, rows, ui>>
       ELSE /\ LET op == ops[o]
                   response == op.response[1]
                   thrown == thrownFor(response, op.kind)
               IN  IF thrown # <<>>
                   THEN ops' = [ops EXCEPT ![o] = [@ EXCEPT !.pc = "threw",
                                                            !.thrown = thrown]]
                   ELSE \E text \in {contentOrDefault(response.content, op.kind)} :
                        \E secs \in {parseBusinessPlanSections(text).sections} :
                            ops' = [ops EXCEPT ![o] =
                                      [@ EXCEPT !.pc = "returned",
                                                !.text = <<text>>,
                                                !.plan =
                                                  IF op.kind = "generate"
                                                  THEN <<generatedPlan(FormData, secs,
                                                                       clock)>>
                                                  ELSE <<modifiedPlan(
                                                           op.businessPlan[1],
                                                           secs, clock)>>]]
            /\ UNCHANGED <<parseVars, apiKey, clock, rows, ui>>

\* A modifyBusinessPlan that writes the new fields into the plan it was given
\* (Object.assign(businessPlan, ...)) and returns that plan.
Complete_InPlace(o) ==
    /\ ops[o].pc = "responded"
    /\ LET op == ops[o]
           response == op.response[1]
           thrown == thrownFor(response, op.kind)
       IN  IF thrown # <<>>
           THEN ops' = [ops EXCEPT ![o] = [@ EXCEPT !.pc = "threw",
                                                    !.thrown = thrown]]
           ELSE \E text \in {contentOrDefault(response.content, op.kind)} :
                \E secs \in {parseBusinessPlanSections(text).sections} :
                    ops' = [ops EXCEPT ![o] =
                              [@ EXCEPT !.pc = "returned",
                                        !.text = <<text>>,
                                        !.businessPlan =
                                          IF op.kind = "generate" THEN <<>>
                                          ELSE <<modifiedPlan(op.businessPlan[1],
                                                              secs, clock)>>,
                                        !.plan =
                                          IF op.kind = "generate"
                                          THEN <<generatedPlan(FormData, secs, clock)>>
                                          ELSE <<modifiedPlan(op.businessPlan[1],
                                                              secs, clock)>>]]
    /\ UNCHANGED <<parseVars, apiKey, clock, rows, ui>>

\* The generator from the outcome of its request to its end: it throws, or it
\* parses the completion into sections and returns the plan.
Complete(o) ==
    /\ ops[o].pc = "responded"
    /\ LET op == ops[o]
           response == op.response[1]
           thrown == thrownFor(response, op.kind)
       IN  IF thrown # <<>>
           THEN ops' = [ops EXCEPT ![o] = [@ EXCEPT !.pc = "threw",
                                                    !.thrown = thrown]]
           ELSE \E text \in {contentOrDefault(response.content, op.kind)} :
                \E secs \in {parseBusinessPlanSections(text).sections} :
                    ops' = [ops EXCEPT ![o] =
                              [@ EXCEPT !.pc = "returned",
                                        !.text = <<text>>,
                                        !.plan =
                                          IF op.kind = "generate"
                                          THEN <<generatedPlan(FormData, secs, clock)>>
                                          ELSE <<modifiedPlan(op.businessPlan[1],
                                                              secs, clock)>>]]
    /\ UNCHANGED <<parseVars, apiKey, clock, rows, ui>>

\* The row saveBusinessPlan inserts for the plan o was returned.
rowFor(op, id, now) ==
    [id            |-> id,
     business_name |-> IF op.kind = "generate" THEN FormData.businessName
                       ELSE op.input[1].business_name,
     industry      |-> IF op.kind = "generate" THEN FormData.industry
                       ELSE op.input[1].industry,
     title         |-> IF op.kind = "generate" THEN op.plan[1].title
                       ELSE Append(op.input[1].title, "(Modified)"),
     created_at    |-> now,
     generated_plan |-> op.plan[1].sections,
     status        |-> "complete"]

\* databaseService.saveBusinessPlan: the insert succeeds and returns the row,
\* or it fails and the function throws.
Save(o) ==
    /\ ops[o].pc = "returned"
    /\ \/ /\ rows' = Append(rows, rowFor(ops[o], <<"row", Len(rows)>>, clock))
          /\ ops' = [ops EXCEPT ![o] =
                       [@ EXCEPT !.pc = "saved",
                                 !.saves = @ + 1,
                                 !.saved = <<rowFor(ops[o], <<"row", Len(rows)>>, clock)>>]]
       \/ /\ rows' = rows
          /\ ops' = [ops EXCEPT ![o] = [@ EXCEPT !.pc = "threw",
                                                 !.saves = @ + 1,
                                                 !.thrown = <<Error(FailedToSave)>>]]
    /\ UNCHANGED <<parseVars, apiKey, clock, ui>>

\* A handler that puts the saved record in the place of the record it was
\* made from (plans.map(p => p.id === original.id ? saved : p)).
Commit_ReplacesOriginal(o) ==
    /\ ops[o].pc = "saved"
    /\ ui' = IF ops[o].kind = "generate"
             THEN [ui EXCEPT !.plans = ops[o].saved \o @,
                             !.showGenerator = FALSE,
                             !.isGenerating = FALSE]
             ELSE [ui EXCEPT !.plans =
                                 [n \in 1..Len(@) |->
                                    IF @[n].id = ops[o].input[1].id
                                    THEN ops[o].saved[1] ELSE @[n]],
                             !.showPlanView = ops[o].saved,
                             !.showModifyMode = FALSE,
                             !.isModifying = FALSE]
    /\ ops' = [ops EXCEPT ![o] = [@ EXCEPT !.pc = "done"]]
    /\ UNCHANGED <<parseVars, apiKey, clock, rows>>

\* The handler after the save: the saved record goes to the head of the list.
Commit(o) ==
    /\ ops[o].pc = "saved"
    /\ ui' = IF ops[o].kind = "generate"
             THEN [ui EXCEPT !.plans = ops[o].saved \o @,
                             !.showGenerator = FALSE,
                             !.isGenerating = FALSE]
             ELSE [ui EXCEPT !.plans = ops[o].saved \o @,
                             !.showPlanView = ops[o].saved,
                             !.showModifyMode = FALSE,
                             !.isModifying = FALSE]
    /\ ops' = [ops EXCEPT ![o] = [@ EXCEPT !.pc = "done"]]
    /\ UNCHANGED <<parseVars, apiKey, clock, rows>>

\* A catch block that stores what there is of the plan as a draft.
Catch_SavesPartial(o) ==
    /\ ops[o].pc = "threw"
    /\ rows' = Append(rows, [SeedRecord("draft") EXCEPT !.id = <<"row", Len(rows)>>,
                                                        !.generated_plan = <<>>])
    /\ ui' = [ui EXCEPT !.error = <<ops[o].thrown[1].message>>,
                        !.plans = <<rows'[Len(rows')]>> \o @,
                        !.isGenerating = FALSE]
    /\ ops' = [ops EXCEPT ![o] = [@ EXCEPT !.pc = "failed"]]
    /\ UNCHANGED <<parseVars, apiKey, clock>>

\* The catch and finally blocks of the handler.
Catch(o) ==
    /\ ops[o].pc = "threw"
    /\ ui' = IF ops[o].kind = "generate"
             THEN [ui EXCEPT !.error = <<ops[o].thrown[1].message>>,
                             !.isGenerating = FALSE]
             ELSE [ui EXCEPT !.error = <<ops[o].thrown[1].message>>,
                             !.isModifying = FALSE]
    /\ ops' = [ops EXCEPT ![o] = [@ EXCEPT !.pc = "failed"]]
    /\ UNCHANGED <<parseVars, apiKey, clock, rows>>

NextGen ==
    \/ Tick
    \/ \E o \in Ops : Invoke(o, "generate")
    \/ \E o \in Ops : Invoke(o, "modify")
    \/ \E o \in Ops : Respond(o)
    \/ \E o \in Ops : Complete(o)
    \/ \E o \in Ops : Save(o)
    \/ \E o \in Ops : Commit(o)
    \/ \E o \in Ops : Catch(o)

SpecGen == InitGen /\ [][NextGen]_vars

\* The generator called on its own, by a caller that is not the page.
InitApi ==
    /\ NoParse
    /\ apiKey \in ApiKeys
    /\ clock = 1
    /\ ops = [o \in Ops |-> IdleOp]
    /\ rows = <<>>
    /\ ui = [plans |-> <<>>, showPlanView |-> <<>>, error |-> <<>>,
             isGenerating |-> FALSE, isModifying |-> FALSE,
             showGenerator |-> FALSE, showModifyMode |-> FALSE]

\* The plans a caller holds: the one of a stored record, and those the
\* generator has returned to it.
PlansAtHand ==
    {planForModification(SeedRecord(status)) : status \in StoredStatus}
    \cup {ops[p].plan[1] : p \in {q \in Ops : ops[q].plan # <<>>}}

\* generateBusinessPlan(input) or modifyBusinessPlan(businessPlan, request) up
\* to its await: it throws for want of an API key or sends its request.
Call(o, kind) ==
    /\ ops[o].pc = "idle"
    /\ \E given \in IF kind = "generate" THEN {<<>>}
                    ELSE {<<plan>> : plan \in PlansAtHand} :
           ops' = [ops EXCEPT ![o] =
                     [@ EXCEPT !.kind = kind,
                               !.businessPlan = given,
                               !.pc = IF KeyConfigured(apiKey) THEN "awaiting"
                                      ELSE "threw",
                               !.thrown = IF KeyConfigured(apiKey) THEN <<>>
                                          ELSE <<Error(KeyNotConfigured)>>,
                               !.requests = IF KeyConfigured(apiKey) THEN @ + 1
                                            ELSE @]]
    /\ UNCHANGED <<parseVars, apiKey, clock, rows, ui>>

NextApi ==
    \/ Tick
    \/ \E o \in Ops : Call(o, "generate")
    \/ \E o \in Ops : Call(o, "modify")
    \/ \E o \in Ops : Respond(o)
    \/ \E o \in Ops : Complete(o)

SpecApi == InitApi /\ [][NextApi]_vars

(***************************************************************************)
(* What the claims speak about.                                            *)
(***************************************************************************)
Done == pc = "done"

\* The lines of the cleaned text the scan took for headers.
HeaderLineIdx == {i \in 1..Len(lines) : matched[i] # <<>>}

\* The output is the one fallback section.
IsFallbackOutput == Len(sections) = 1 /\ sections[1].title = FallbackTitle

CanonicalNames == {sectionHeaders[k] : k \in 1..Len(sectionHeaders)}

\* The section list the scan yields on the lines from index k on.
ScanFrom(k) == flush(scanLines(initScan, SubSeq(lines, k, Len(lines)), 1))

\* Header line i is followed, before the next header line, by a non-blank line.
HasContentAfter(i) ==
    \E j \in (i + 1)..Len(lines) :
        /\ trim(lines[j]) # <<>>
        /\ \A k \in (i + 1)..j : matched[k] = <<>>

\* The names of the header lines that have content, in the order of the lines.
TitlesInLineOrder ==
    LET idx == SelectSeq([i \in 1..Len(lines) |-> i],
                         LAMBDA i : matched[i] # <<>> /\ HasContentAfter(i))
    IN  [n \in 1..Len(idx) |-> matched[idx[n]]]

\* One of the two header forms of the outline, stated on a trimmed line.
HeaderForm(t) ==
    \/ \E k \in 1..Len(sectionHeaders) : toLowerCase(t) = toLowerCase(sectionHeaders[k])
    \/ /\ RunLen(t, 1, Digit) >= 1
       /\ RunLen(t, 1, Digit) < Len(t)
       /\ t[RunLen(t, 1, Digit) + 1] = "."
       /\ \E k \in 1..Len(sectionHeaders) :
              includes(toLowerCase(t), toLowerCase(sectionHeaders[k]))

\* s holds a markdown header marker: a # followed by a whitespace character.
HasHeaderMarker(s) ==
    \E i \in 1..(Len(s) - 1) : s[i] = "#" /\ s[i + 1] \in WhiteSpace

HasTripleNewline(s) ==
    \E i \in 1..(Len(s) - 2) : s[i] = "\n" /\ s[i + 1] = "\n" /\ s[i + 2] = "\n"

\* The cleanliness of a section's content that C8 states.
IsClean(c) ==
    /\ \A i \in 1..Len(c) : c[i] # "*"
    /\ \A j \in 1..Len(split(c)) :
           split(c)[j] = <<>> \/ split(c)[j][1] \notin WhiteSpace
    /\ (c = <<>> \/ (c[1] \notin WhiteSpace /\ c[Len(c)] \notin WhiteSpace))
    /\ ~HasTripleNewline(c)

(***************************************************************************)
(* C1..C10                                                                 *)
(***************************************************************************)
\* C1: whatever the input, the returned list holds at least one section.
C1_NonEmpty == Done => Len(sections) >= 1

\* C1 witness: a non-empty input of whitespace and markdown markers only was parsed.
C1_Witness ==
    /\ Done
    /\ raw # <<>>
    /\ \A i \in 1..Len(raw) : raw[i] \in WhiteSpace \cup {"*", "#"}
    /\ Len(sections) = 1

\* C2: when no line of the cleaned input is a header, the output is exactly the
\* fallback section, whose content is the formatting pass applied to the
\* globally cleaned input.
C2_FallbackCorrect ==
    (Done /\ HeaderLineIdx = {}) =>
        sections = <<[title |-> FallbackTitle,
                      content |-> formatSectionContent(cleanUp(raw))]>>

\* C2 witness: a header-free input with text, on which the formatting pass
\* changes the cleaned text.
C2_Witness ==
    /\ Done
    /\ HeaderLineIdx = {}
    /\ sections[1].content # <<>>
    /\ sections[1].content # cleanContent

\* C3 as stated: no line the scan matched as a header is a line of the content
\* of any output section.
C3_HeaderConsumed_Original ==
    Done =>
        \A i \in HeaderLineIdx : \A n \in 1..Len(sections) :
            \A j \in 1..Len(split(sections[n].content)) :
                split(sections[n].content)[j] # lines[i]

\* C3 amended: when the output is not the fallback section, no line the scan
\* matched as a header is a line of the content of any output section.
C3_HeaderConsumed ==
    (Done /\ ~IsFallbackOutput) =>
        \A i \in HeaderLineIdx : \A n \in 1..Len(sections) :
            \A j \in 1..Len(split(sections[n].content)) :
                split(sections[n].content)[j] # lines[i]

\* C3 witness: two header lines were matched and both sections came out.
C3_Witness ==
    /\ Done
    /\ ~IsFallbackOutput
    /\ Cardinality(HeaderLineIdx) >= 2
    /\ Len(sections) >= 2

\* C4 as stated: whenever some line is a header, the output is what the lines
\* from the first header on yield by themselves (the earlier lines add nothing).
C4_PreambleDiscarded_Original ==
    (Done /\ HeaderLineIdx # {}) =>
        sections = fallback(ScanFrom(SetMin(HeaderLineIdx)),
                            joinLines(SubSeq(lines, SetMin(HeaderLineIdx), Len(lines))))

\* C4 amended: whenever some line is a header and the output is not the
\* fallback section, the output is what the lines from the first header on
\* yield by themselves.
C4_PreambleDiscarded ==
    (Done /\ HeaderLineIdx # {} /\ ~IsFallbackOutput) =>
        sections = ScanFrom(SetMin(HeaderLineIdx))

\* C4 witness: text precedes the first header and sections came out.
C4_Witness ==
    /\ Done
    /\ HeaderLineIdx # {}
    /\ SetMin(HeaderLineIdx) > 1
    /\ ~IsFallbackOutput

\* C5: the titles of the output are the names of the header lines that have
\* content, in the order of those lines in the input.
C5_OrderPreserved ==
    (Done /\ ~IsFallbackOutput) =>
        [n \in 1..Len(sections) |-> sections[n].title] = TitlesInLineOrder

\* C5 witness: two sections came out in the reverse of the outline's order.
C5_Witness ==
    /\ Done
    /\ Len(sections) = 2
    /\ sections[1].title = sectionHeaders[10]
    /\ sections[2].title = sectionHeaders[8]

\* C6: a cleaned line is taken for a header exactly when its trimmed text has
\* one of the two header forms, and the name it opens is one the line contains.
C6_HeaderForms ==
    Done =>
        \A i \in 1..Len(lines) :
            /\ (matched[i] # <<>>) <=> HeaderForm(trim(lines[i]))
            /\ matched[i] # <<>> =>
                   includes(toLowerCase(lines[i]), toLowerCase(matched[i]))

\* C6 witness: a numbered line with more text than the name was taken for a
\* header, and a line that only mentions a name was not.
C6_Witness ==
    /\ Done
    /\ \E i \in 1..Len(lines) :
           /\ matched[i] # <<>>
           /\ RunLen(lines[i], 1, Digit) >= 1
           /\ Len(lines[i]) > Len(matched[i]) + 3
    /\ \E i \in 1..Len(lines) :
           /\ matched[i] = <<>>
           /\ \E k \in 1..Len(sectionHeaders) :
                  includes(toLowerCase(lines[i]), toLowerCase(sectionHeaders[k]))

\* C7: every title of the output is a name of the outline, spelled as in the
\* outline, or the fallback title.
C7_CanonicalTitles ==
    Done =>
        \A n \in 1..Len(sections) :
            sections[n].title \in CanonicalNames \cup {FallbackTitle}

\* C7 witness: a section came out whose header line is not spelled as the outline.
C7_Witness ==
    /\ Done
    /\ ~IsFallbackOutput
    /\ \E i \in HeaderLineIdx : HasContentAfter(i) /\ trim(lines[i]) # matched[i]

\* C8: the content of every output section has no asterisk, no line that
\* begins with whitespace, no whitespace at either end, no three newlines in a row.
C8_CleanContent ==
    Done => \A n \in 1..Len(sections) : IsClean(sections[n].content)

\* C8 witness: an input with an asterisk and an indented line gave content.
C8_Witness ==
    /\ Done
    /\ \E i \in 1..Len(raw) : raw[i] = "*"
    /\ \E i \in 1..(Len(raw) - 1) : raw[i] = "\n" /\ raw[i + 1] = " "
    /\ \E n \in 1..Len(sections) : sections[n].content # <<>>

\* C9: the content of no output section holds a markdown header marker
\* (one to six # followed by a whitespace character).
C9_NoHeaderMarker ==
    Done => \A n \in 1..Len(sections) : ~HasHeaderMarker(sections[n].content)

\* C10 as stated: every content line that starts with - or the bullet begins
\* with the bullet and a space.
C10_BulletsNormalized_Original ==
    Done =>
        \A n \in 1..Len(sections) :
            \A j \in 1..Len(split(sections[n].content)) :
                LET l == split(sections[n].content)[j]
                IN  (l # <<>> /\ l[1] \in {"-", Bullet}) =>
                        (Len(l) >= 2 /\ l[1] = Bullet /\ l[2] = " ")

\* C10 amended: every content line that starts with - or the bullet followed
\* by a whitespace character begins with the bullet and a space.
C10_BulletsNormalized ==
    Done =>
        \A n \in 1..Len(sections) :
            \A j \in 1..Len(split(sections[n].content)) :
                LET l == split(sections[n].content)[j]
                IN  (Len(l) >= 2 /\ l[1] \in {"-", Bullet} /\ l[2] \in WhiteSpace) =>
                        (l[1] = Bullet /\ l[2] = " ")

\* C10 witness: an indented "-" bullet of the input came out as a bullet line.
C10_Witness ==
    /\ Done
    /\ \E i \in 1..(Len(raw) - 2) :
           raw[i] = " " /\ raw[i + 1] = "-" /\ raw[i + 2] \in WhiteSpace
    /\ \E n \in 1..Len(sections) :
           \E j \in 1..Len(split(sections[n].content)) :
               LET l == split(sections[n].content)[j]
               IN  Len(l) >= 3 /\ l[1] = Bullet /\ l[2] = " "


(***************************************************************************)
(* C11..C20                                                                *)
(***************************************************************************)
\* C11: the formatting pass is idempotent: applied to its own result it
\* returns that result.
C11_FormatIdempotent == (pc = "reformatted") => reformatted = formatted

\* C11 witness: a text the first pass changes (asterisks, a bullet marker and
\* an indented line are all rewritten) was passed through the pass twice.
C11_Witness ==
    /\ pc = "reformatted"
    /\ formatted # raw
    /\ formatted # <<>>
    /\ \E i \in 1..Len(raw) : raw[i] = "*"
    /\ \E i \in 1..(Len(formatted) - 1) : formatted[i] = Bullet /\ formatted[i + 1] = " "
    /\ reformatted = formatted

\* The first header line after line i, or the line past the end.
NextHeaderLine(i) ==
    SetMin({j \in (i + 1)..Len(lines) : matched[j] # <<>>} \cup {Len(lines) + 1})

\* The lines from..to of the cleaned text, each with a newline after it.
RECURSIVE LinesWithNewlines(_, _)
LinesWithNewlines(from, to) ==
    IF from > to THEN <<>>
    ELSE lines[from] \o <<"\n">> \o LinesWithNewlines(from + 1, to)

\* What lies between header line i and the next header line or the end.
ContentUnder(i) == trim(LinesWithNewlines(i + 1, NextHeaderLine(i) - 1))

\* The sections the outline states: one for each header line with content
\* under it, in line order, holding the formatted content under that line.
SectionsByLines ==
    LET idx == SelectSeq([i \in 1..Len(lines) |-> i],
                         LAMBDA i : matched[i] # <<>> /\ ContentUnder(i) # <<>>)
    IN  [n \in 1..Len(idx) |->
            [title   |-> matched[idx[n]],
             content |-> formatSectionContent(ContentUnder(idx[n]))]]

\* C12: when a header line has content under it, the output is one section for
\* each such header line, in line order, whose content is the formatting pass
\* applied to the trimmed run of non-header lines, each followed by a newline,
\* between that header line and the next header line or the end.
C12_ContentBetweenHeaders ==
    (Done /\ \E i \in HeaderLineIdx : ContentUnder(i) # <<>>) =>
        sections = SectionsByLines

\* C12 witness: the two-section plan of the outline was parsed into its two
\* sections.
C12_Witness ==
    /\ Done
    /\ raw = TwoSectionPlan
    /\ sections =
         << [title   |-> sectionHeaders[1],
             content |-> <<"W","e"," ","b","u","i","l","d"," ","s","o","l","a",
                           "r"," ","k","i","t","s",".">>],
            [title   |-> sectionHeaders[3],
             content |-> <<"R","u","r","a","l"," ","d","e","m","a","n","d"," ",
                           "i","s"," ","h","i","g","h",".">>] >>

\* The lines of the text as given.
RawLines == split(raw)

\* The text a markdown decoration wraps: l is **text**, or one to six # and a
\* space and then text; the empty string when l is neither.
Undecorated(l) ==
    IF Len(l) > 4 /\ SubSeq(l, 1, 2) = <<"*", "*">>
                  /\ SubSeq(l, Len(l) - 1, Len(l)) = <<"*", "*">>
    THEN SubSeq(l, 3, Len(l) - 2)
    ELSE IF /\ RunLen(l, 1, {"#"}) \in 1..6
            /\ Len(l) > RunLen(l, 1, {"#"}) + 1
            /\ l[RunLen(l, 1, {"#"}) + 1] = " "
    THEN SubSeq(l, RunLen(l, 1, {"#"}) + 2, Len(l))
    ELSE <<>>

\* The section name a decorated line spells, the empty string when none.
DecoratedHeader(l) ==
    LET hit == {k \in 1..Len(sectionHeaders) :
                   toLowerCase(Undecorated(l)) = lowerHeaders[k]}
    IN  IF hit = {} THEN <<>> ELSE sectionHeaders[SetMin(hit)]

\* l is a bullet line given with a dash: optional indentation, -, a whitespace
\* character, then text that starts with neither whitespace nor a marker.
IsDashBullet(l) ==
    LET w == RunLen(l, 1, WhiteSpace)
    IN  /\ Len(l) >= w + 3
        /\ l[w + 1] = "-"
        /\ l[w + 2] \in WhiteSpace
        /\ l[w + 3] \notin WhiteSpace \cup {"*", "#"}

ReturnedNormally ==
    /\ Len(sections) >= 1
    /\ \A n \in 1..Len(sections) :
          /\ DOMAIN sections[n] = {"title", "content"}
          /\ sections[n].title \in CanonicalNames \cup {FallbackTitle}
          /\ \A i \in 1..Len(sections[n].content) :
                sections[n].content[i] \in {raw[k] : k \in 1..Len(raw)} \cup {Bullet, " "}
    /\ (HeaderLineIdx = {}) => IsFallbackOutput

\* C14: the call has no error outcome: whatever the text, the call is either
\* still to be made or has returned a section list; a text with no header
\* line, the empty text included, yields the fallback section and nothing else.
C14_NoErrorOutcome ==
    /\ pc \in {"start", "done"}
    /\ Done => ReturnedNormally

\* C14 witness: the empty text was parsed and returned as the fallback section
\* with empty content.
C14_Witness ==
    /\ Done
    /\ raw = <<>>
    /\ sections = <<[title |-> FallbackTitle, content |-> <<>>]>>

\* The invocations the generator has returned a plan to.
Returned == {o \in Ops : ops[o].plan # <<>>}

\* The sections a call of the given kind that ran alone returns for each
\* completion.
SectionsAloneTable ==
    [kind \in {"generate", "modify"} |->
        [content \in Completions |->
            parseBusinessPlanSections(contentOrDefault(content, kind)).sections]]

SectionsAlone(response, kind) == SectionsAloneTable[kind][response.content]

\* C15: however the invocations interleave, the sections of each returned plan
\* are those of parseBusinessPlanSections on the completion text of the same
\* invocation, as if it had run alone.
C15_SectionsOfOwnText ==
    \A o \in Returned :
        /\ ops[o].text = <<contentOrDefault(ops[o].response[1].content, ops[o].kind)>>
        /\ ops[o].plan[1].sections = SectionsAlone(ops[o].response[1], ops[o].kind)

\* C15 witness: a generate and a modify call are both in progress behind their
\* await, each returned a plan, and the two completions and their section lists
\* differ.
C15_Witness ==
    /\ ops["op1"].kind = "generate" /\ ops["op1"].pc = "returned"
    /\ ops["op2"].kind = "modify" /\ ops["op2"].pc = "returned"
    /\ ops["op1"].response[1].content = HashHeaderPlan
    /\ ops["op2"].response[1].content = <<"x">>
    /\ ops["op1"].plan[1].sections # ops["op2"].plan[1].sections

\* C16: every plan the generator returns has status complete and at least one
\* section.
C16_ReturnedPlanComplete ==
    \A o \in Returned :
        /\ ops[o].plan[1].status = "complete"
        /\ Len(ops[o].plan[1].sections) >= 1

\* C16 witness: a draft plan was modified, the completion was empty, and the
\* plan returned is complete with one section.
C16_Witness ==
    \E o \in Returned :
        /\ ops[o].kind = "modify"
        /\ ops[o].input[1].status = "draft"
        /\ ops[o].response[1].content = <<>>
        /\ ops[o].plan[1].status = "complete"
        /\ Len(ops[o].plan[1].sections) = 1

\* The invocations whose request was rejected or answered with a failing status,
\* and whose generator call has ended.
EndedOnFailedRequest ==
    {o \in Ops : /\ ops[o].pc \in {"threw", "failed"}
                 /\ ops[o].response # <<>>
                 /\ ~Ok(ops[o].response[1])}

\* The error value the failed request itself produced: the rejection of fetch,
\* or the error message in the body of the failing answer.
ProducedBy(response) ==
    IF response.kind = "rejected" THEN FetchFailed ELSE Error(response.message)

\* C17 as stated: when the request fails, the generator returns no plan and the
\* caller receives the error value the failing request produced.
C17_FailureUnchanged_Original ==
    \A o \in EndedOnFailedRequest :
        /\ ops[o].plan = <<>>
        /\ ops[o].thrown = <<ProducedBy(ops[o].response[1])>>

\* C17: when the request fails, the generator returns no plan and parses
\* nothing.  A rejection reaches the caller as the value fetch rejected with.
\* A failing answer reaches it as a new Error made by the generator: a fixed
\* text for 401, 402 and 429, else error.message of the body, else the text
\* naming the status.
C17_FailureUnchanged ==
    \A o \in EndedOnFailedRequest :
        LET response == ops[o].response[1]
        IN  /\ ops[o].plan = <<>>
            /\ ops[o].text = <<>>
            /\ Len(ops[o].thrown) = 1
            /\ response.kind = "rejected" => ops[o].thrown[1] = FetchFailed
            /\ response.kind = "answered" =>
                  /\ ops[o].thrown[1].name = "Error"
                  /\ response.status = 401 => ops[o].thrown[1].message = InvalidApiKey
                  /\ response.status = 402 =>
                        ops[o].thrown[1].message = InsufficientCredits
                  /\ response.status = 429 =>
                        ops[o].thrown[1].message = RateLimitExceeded
                  /\ (response.status \notin {401, 402, 429}
                        /\ response.message # "") =>
                        ops[o].thrown[1].message = response.message
                  /\ (response.status \notin {401, 402, 429}
                        /\ response.message = "") =>
                        ops[o].thrown[1].message =
                            RequestFailedWithStatus(response.status)

\* C17 witness: of two calls, one had its request rejected and threw the
\* rejection of fetch, the other was answered 401 with an upstream message and
\* threw the fixed text.
C17_Witness ==
    /\ ops["op1"].pc = "threw" /\ ops["op2"].pc = "threw"
    /\ ops["op1"].response # <<>> /\ ops["op2"].response # <<>>
    /\ ops["op1"].response[1].kind = "rejected"
    /\ ops["op1"].thrown = <<FetchFailed>>
    /\ ops["op2"].response[1].status = 401
    /\ ops["op2"].response[1].message = UpstreamMessage
    /\ ops["op2"].thrown = <<Error(InvalidApiKey)>>

\* The invocations that ended in the generator: the API key check or the
\* completion call failed, and no plan was returned.
FailedInGenerator == {o \in Ops : ops[o].thrown # <<>> /\ ops[o].plan = <<>>}

\* The step is one of invocation o.
StepOf(o) == ops'[o] # ops[o]

\* C18: saveBusinessPlan is called only for an invocation the generator has
\* returned a plan to, and a row is written and the list of plans grows only in
\* a step of such an invocation; an invocation that failed in the generator has
\* called no save, and the step that ends it leaves the rows and the list of
\* plans as they are and sets the error message to the message of the error.
C18_NothingSavedOnFailure ==
    /\ [](\A o \in Ops : ops[o].saves > 0 => ops[o].plan # <<>>)
    /\ [](\A o \in FailedInGenerator : ops[o].saves = 0 /\ ops[o].saved = <<>>)
    /\ [][\A o \in Ops :
            /\ (StepOf(o) /\ ops'[o].plan = <<>>) =>
                  rows' = rows /\ ui'.plans = ui.plans
            /\ (StepOf(o) /\ ops'[o].pc = "failed" /\ ops'[o].plan = <<>>) =>
                  /\ ui'.error = <<ops[o].thrown[1].message>>
                  /\ ui'.error[1] # ""
            /\ (rows' # rows /\ StepOf(o)) =>
                  ops[o].pc = "returned" /\ ops[o].plan # <<>>
            /\ (ui'.plans # ui.plans /\ StepOf(o)) =>
                  ops[o].pc = "saved" /\ ui'.plans = ops[o].saved \o ui.plans]_vars

\* C18 witness: one invocation ended on a failed completion call and the other
\* on the API key check or a failed call; the store and the list hold what
\* they held when the page was opened, and the error message is set.
C18_Witness ==
    /\ \A o \in Ops : ops[o].pc = "failed" /\ ops[o].kind # "none"
    /\ \E o \in Ops : ops[o].requests = 1 /\ ops[o].response[1].status = 402
    /\ \A o \in Ops : ops[o].plan = <<>> /\ ops[o].saves = 0
    /\ Len(rows) = 1
    /\ ui.plans = rows
    /\ ui.error # <<>>

\* C19: an invocation sends at most one request; once it has thrown it sends no
\* other; and it parses a completion only after its one request was answered
\* with an ok status.
C19_OneRequestNoRetry ==
    /\ [](\A o \in Ops :
            /\ ops[o].requests <= 1
            /\ ops[o].text # <<>> =>
                  /\ ops[o].requests = 1
                  /\ ops[o].response # <<>>
                  /\ Ok(ops[o].response[1]))
    /\ [][\A o \in Ops :
            /\ ops[o].thrown # <<>> => ops'[o].requests = ops[o].requests
            /\ ops'[o].requests > ops[o].requests =>
                  ops[o].pc = "idle" /\ ops[o].response = <<>>]_vars

\* C19 witness: an invocation whose one request was answered 429 has ended in
\* error with that one request sent, while the other has parsed the completion
\* of its one request.
C19_Witness ==
    /\ ops["op1"].pc = "failed"
    /\ ops["op1"].response # <<>>
    /\ ops["op1"].response[1].status = 429
    /\ ops["op1"].requests = 1
    /\ ops["op2"].text = <<HashHeaderPlan>>
    /\ ops["op2"].requests = 1

\* The invocations whose request was answered with a failing status, and whose
\* generator call has ended.
EndedOnFailingAnswer ==
    {o \in EndedOnFailedRequest : ops[o].response[1].kind = "answered"}

\* The text the page shows for a failing answer.
ShownFor(response) ==
    CASE response.status = 401 -> InvalidApiKey
      [] response.status = 402 -> InsufficientCredits
      [] response.status = 429 -> RateLimitExceeded
      [] response.status \notin {401, 402, 429} /\ response.message # "" ->
             response.message
      [] response.status \notin {401, 402, 429} /\ response.message = "" ->
             RequestFailedWithStatus(response.status)

\* C20 as stated: when an invocation has ended on a failing answer that carried
\* a message, and no other invocation was made, the error text of the page is
\* that message, and no section list was produced.
C20_UpstreamMessageShown_Original ==
    \A o \in EndedOnFailingAnswer :
        (/\ ops[o].pc = "failed"
         /\ ops[o].response[1].message # ""
         /\ \A p \in Ops \ {o} : ops[p].pc = "idle") =>
            /\ ui.error = <<ops[o].response[1].message>>
            /\ ops[o].text = <<>>
            /\ ops[o].plan = <<>>

\* C20: on a failing answer no section list is produced, and the step that
\* ends the invocation sets the error text of the page to a fixed text for 401,
\* 402 and 429, and for any other status to the message of the endpoint or,
\* when it gave none, to the text naming the status.
C20_UpstreamMessageShown ==
    /\ [](\A o \in EndedOnFailingAnswer : ops[o].text = <<>> /\ ops[o].plan = <<>>)
    /\ [][\A o \in EndedOnFailingAnswer :
            (StepOf(o) /\ ops'[o].pc = "failed") =>
                ui'.error = <<ShownFor(ops[o].response[1])>>]_vars

\* C20 witness: one invocation ended on a 500 whose message the page then
\* showed, after the other had ended on a 401 that carried the same message and
\* was reported with the fixed text.
C20_Witness ==
    /\ ops["op1"].pc = "failed" /\ ops["op2"].pc = "failed"
    /\ ops["op1"].response # <<>> /\ ops["op2"].response # <<>>
    /\ ops["op1"].response[1].status = 401
    /\ ops["op1"].response[1].message = UpstreamMessage
    /\ ops["op1"].thrown = <<Error(InvalidApiKey)>>
    /\ ops["op2"].response[1].status = 500
    /\ ops["op2"].response[1].message = UpstreamMessage
    /\ ui.error = <<UpstreamMessage>>

(***************************************************************************)
(* C21..C30                                                                *)
(***************************************************************************)
\* The calls of modifyBusinessPlan that returned a plan.
ReturnedModified == {o \in Returned : ops[o].kind = "modify"}

\* C21: the plan modifyBusinessPlan returns has an id other than the id of the
\* plan it was given, whatever that plan is, a plan the generator itself has
\* just returned included.
C21_NewId ==
    \A o \in ReturnedModified : ops[o].plan[1].id # ops[o].businessPlan[1].id

\* C22: modifyBusinessPlan leaves the plan it was given as it is, in every step
\* of the call, whether the call returns or throws, and no step of one call
\* changes what another call holds; the plan it returns has the industry of
\* the given plan, its title with the suffix appended, and the sections
\* parseBusinessPlanSections makes of the new completion.
C22_InputNotMutated ==
    /\ [][\A o \in Ops :
            /\ ops[o].businessPlan # <<>> =>
                  ops'[o].businessPlan = ops[o].businessPlan
            /\ StepOf(o) => \A p \in Ops \ {o} : ops'[p] = ops[p]]_vars
    /\ [](\A o \in ReturnedModified :
            /\ ops[o].plan[1].industry = ops[o].businessPlan[1].industry
            /\ ops[o].plan[1].title =
                  ops[o].businessPlan[1].title \o <<"(Modified)">>
            /\ ops[o].plan[1].sections = SectionsAlone(ops[o].response[1], "modify"))

\* C22 witness: a plan returned by generateBusinessPlan was given to
\* modifyBusinessPlan; the caller still holds it as it was returned, and the
\* modified plan has its industry, its title with the suffix and other sections.
C22_Witness ==
    /\ ops["op1"].kind = "generate" /\ ops["op1"].plan # <<>>
    /\ ops["op2"].kind = "modify" /\ ops["op2"].plan # <<>>
    /\ ops["op2"].businessPlan = ops["op1"].plan
    /\ ops["op1"].plan[1].title = <<"Acme", "Business Plan">>
    /\ ops["op2"].plan[1].title = <<"Acme", "Business Plan", "(Modified)">>
    /\ ops["op2"].plan[1].industry = "Retail"
    /\ ops["op2"].plan[1].sections # ops["op1"].plan[1].sections


\* The modifications the page has carried through to the end.
CommittedModifications == {o \in Ops : ops[o].kind = "modify" /\ ops[o].pc = "done"}

\* C23: a modification that succeeds keeps the prior version: the rows of the
\* store are only ever added to, never changed or removed, the list of the
\* page only grows at its head, the step that ends a successful modification
\* puts the new record before the list as it was, and afterwards the list
\* holds the record the modification was made from, with every field as it
\* was, behind the new record, which has another id.
C23_PriorVersionKept ==
    /\ [][/\ Len(rows') >= Len(rows)
          /\ \A n \in 1..Len(rows) : rows'[n] = rows[n]
          /\ Len(ui'.plans) >= Len(ui.plans)
          /\ \A n \in 1..Len(ui.plans) :
                ui'.plans[n + Len(ui'.plans) - Len(ui.plans)] = ui.plans[n]
          /\ \A o \in Ops :
                (ops[o].kind = "modify" /\ ops[o].pc = "saved" /\ ops'[o].pc = "done")
                    => ui'.plans = ops[o].saved \o ui.plans]_vars
    /\ [](\A o \in CommittedModifications :
            /\ \E n \in 1..Len(rows) : rows[n] = ops[o].input[1]
            /\ \E n \in 1..Len(rows) : rows[n] = ops[o].saved[1]
            /\ ops[o].saved[1].id # ops[o].input[1].id
            /\ \E m, n \in 1..Len(ui.plans) :
                  /\ m < n
                  /\ ui.plans[m] = ops[o].saved[1]
                  /\ ui.plans[n] = ops[o].input[1])

\* C23 witness: one modification of the stored plan has been saved and shown:
\* the store holds the original and the new row, the list the new record and
\* then the original.
C23_Witness ==
    /\ CommittedModifications = {"op1"}
    /\ ops["op2"].pc = "idle"
    /\ \E status \in StoredStatus :
          /\ rows = <<SeedRecord(status), ops["op1"].saved[1]>>
          /\ ui.plans = <<ops["op1"].saved[1], SeedRecord(status)>>
    /\ ui.showPlanView = ops["op1"].saved


\* The header lines that are followed by a non-blank line before the next
\* header line or the end of the text.
HeadersWithContent == {i \in HeaderLineIdx : HasContentAfter(i)}

\* C24: when the output is not the fallback it has as many sections as there
\* are header lines followed by non-blank content, one for each of them in the
\* order of the lines and under the name matched on that line; a header line
\* followed by blank lines only gives none, and a name that heads two such
\* lines gives two sections.
C24_SectionPerHeaderWithContent ==
    (Done /\ ~IsFallbackOutput) =>
        /\ Len(sections) = Cardinality(HeadersWithContent)
        /\ \A n \in 1..Len(sections) :
              \E i \in HeadersWithContent :
                  /\ Cardinality({j \in HeadersWithContent : j <= i}) = n
                  /\ sections[n].title = matched[i]

\* C24 witness: two header lines of one name, each followed by a line of
\* content: two sections of that name.
C24_Witness ==
    /\ Done
    /\ raw = joinLines(<<LineSet[1], LineSet[3], LineSet[1], LineSet[3]>>)
    /\ Cardinality(HeadersWithContent) = 2
    /\ Len(sections) = 2
    /\ sections[1].title = sectionHeaders[10]
    /\ sections[1].title = sections[2].title


\* A character of running text: none of the characters the formatting pass
\* removes or rewrites.
IsTextChar(c) == c \notin {" ", "\t", "\n", "\r", "*", "-", Bullet}

\* s holds two paragraphs with one blank line between them.
HasParagraphBreak(s) ==
    \E i \in 1..(Len(s) - 3) :
        /\ IsTextChar(s[i])
        /\ s[i + 1] = "\n" /\ s[i + 2] = "\n"
        /\ IsTextChar(s[i + 3])

\* C25: the formatting pass keeps the paragraphs: its result has no run of
\* three newlines, and when its argument holds two paragraphs with one blank
\* line between them, so does its result.
C25_ParagraphsKept ==
    (pc = "formatted") =>
        /\ ~HasTripleNewline(formatted)
        /\ HasParagraphBreak(raw) => HasParagraphBreak(formatted)


\* The calls that have been made, whatever became of them.
Invoked == {o \in Ops : ops[o].pc # "idle"}

\* C26: with no API key, or with the placeholder for one, every call of
\* generateBusinessPlan and modifyBusinessPlan has thrown the error of the
\* missing key, and has sent no request, received no answer, parsed no text
\* and built no plan.
C26_NoKeyNoRequest ==
    apiKey \in {"", "your_openrouter_api_key_here"} =>
        \A o \in Invoked :
            /\ ops[o].pc \in {"threw", "failed"}
            /\ ops[o].thrown =
                  <<Error("OpenRouter API key not configured. Please add your API key to the .env file.")>>
            /\ ops[o].requests = 0
            /\ ops[o].response = <<>>
            /\ ops[o].text = <<>>
            /\ ops[o].plan = <<>>
            /\ ops[o].saves = 0

\* C26 witness: under the placeholder key a generation and a modification
\* have both been called and have failed, and the page shows the message.
C26_Witness ==
    /\ apiKey = "your_openrouter_api_key_here"
    /\ ops["op1"].kind = "generate" /\ ops["op1"].pc = "failed"
    /\ ops["op2"].kind = "modify" /\ ops["op2"].pc = "threw"
    /\ ops["op2"].thrown = <<Error(KeyNotConfigured)>>
    /\ ui.error = <<KeyNotConfigured>>
    /\ Len(rows) = 1


\* C27: the output is the one fallback section exactly when no header line is
\* followed by non-blank content, and then it holds the formatted cleaned
\* text; in every other case no section of the output has the fallback title.
C27_FallbackExactlyWhenNoFlush ==
    Done =>
        /\ IsFallbackOutput <=> (HeadersWithContent = {})
        /\ IsFallbackOutput =>
              sections[1].content = formatSectionContent(cleanContent)
        /\ ~IsFallbackOutput =>
              \A n \in 1..Len(sections) : sections[n].title # FallbackTitle

\* C27 witness: a text with header lines, none of them followed by content:
\* the output is the fallback, and it holds the header lines as text.
C27_Witness ==
    /\ Done
    /\ Cardinality(HeaderLineIdx) = 2
    /\ HeadersWithContent = {}
    /\ IsFallbackOutput
    /\ sections[1].content = joinLines(<<LineSet[1], LineSet[2]>>)


\* C28: when the output is not the fallback, the content of every section is
\* a non-empty string; the content of the fallback is empty only when the
\* cleaned text is empty.
C28_EmptyContentOnlyInFallback ==
    Done =>
        /\ ~IsFallbackOutput =>
              \A n \in 1..Len(sections) : sections[n].content # <<>>
        /\ (IsFallbackOutput /\ sections[1].content = <<>>) => cleanContent = <<>>

\* C28 witness: a text that is not blank but of which the clean-up leaves
\* nothing: the fallback with empty content.
C28_Witness ==
    /\ Done
    /\ \E i \in 1..Len(raw) : raw[i] \notin {" ", "\n"}
    /\ cleanContent = <<>>
    /\ sections = <<[title |-> FallbackTitle, content |-> <<>>]>>


\* The places in the outline of the names line i of the cleaned text contains.
NamesIn(i) ==
    {k \in 1..Len(sectionHeaders) :
        includes(toLowerCase(trim(lines[i])), lowerHeaders[k])}

\* The numbered lines that contain more than one name of the outline.
NumberedWithSeveralNames ==
    {i \in 1..Len(lines) :
        matchesNumbering(trim(lines[i])) /\ Cardinality(NamesIn(i)) > 1}

\* C29: a numbered line that contains several names of the outline is a header
\* line under the one of them that comes first in the outline, and when
\* content follows it, the section it opens has that title.
C29_FirstInOutline ==
    Done =>
        \A i \in NumberedWithSeveralNames :
            /\ matched[i] = sectionHeaders[SetMin(NamesIn(i))]
            /\ HasContentAfter(i) =>
                  sections[Cardinality({j \in HeadersWithContent : j <= i})].title
                      = sectionHeaders[SetMin(NamesIn(i))]

\* C29 witness: "1. Risk Analysis and Executive Summary" followed by a line of
\* content opens Executive Summary.
C29_Witness ==
    /\ Done
    /\ raw = TwoNamePlan
    /\ NumberedWithSeveralNames = {1}
    /\ NamesIn(1) = {1, 8}
    /\ sections = <<[title |-> sectionHeaders[1], content |-> <<"x">>]>>


\* The answer is a successful one whose body is JSON and holds no message
\* content, or an empty one.
CarriesNoContent(response) ==
    /\ Ok(response)
    /\ response.body \in {"json", "nochoices"}
    /\ response.content = <<>>

\* The calls whose answer the generator has dealt with.
Handled == {o \in Ops : ops[o].response # <<>> /\ ops[o].pc # "responded"}

\* The text the wrappers put in the place of a missing completion.
DefaultText(kind) == contentOrDefault(<<>>, kind)

\* C30: parseBusinessPlanSections is never handed the empty string, and a call
\* whose successful answer carries no message content, or an empty one, has
\* returned a plan: its status is complete, its only section is the fallback
\* holding the default text of the function, and the row saved for it holds
\* that section.
C30_DefaultPlanOnEmptyContent ==
    /\ \A o \in Ops : ops[o].text # <<>> => ops[o].text[1] # <<>>
    /\ \A o \in Handled :
          CarriesNoContent(ops[o].response[1]) =>
              /\ ops[o].plan # <<>>
              /\ ops[o].text = <<DefaultText(ops[o].kind)>>
              /\ ops[o].plan[1].status = "complete"
              /\ ops[o].plan[1].sections =
                    <<[title |-> FallbackTitle,
                       content |-> DefaultText(ops[o].kind)]>>
              /\ ops[o].saved # <<>> =>
                    /\ ops[o].saved[1].status = "complete"
                    /\ ops[o].saved[1].generated_plan = ops[o].plan[1].sections

=============================================================================
